---- MODULE Spec2Model ----
(***************************************************************************)
(* A model of the QEnergic optimisation back end: the two /api/optimize    *)
(* handlers (mesh mode, src/unnamed/part_001:97-207, and dataset mode,     *)
(* src/pages/index.js:90-198), their solvers (narGreedyBudget,             *)
(* simulatedAnnealingQUBO, gurobiQUBOBudget) and the quantum_optimize      *)
(* handler (src/unnamed/part_001:221-277).                                 *)
(*                                                                         *)
(* JavaScript arrays are functions on 0..n-1, so that indices read as in   *)
(* the source.  JavaScript numbers are records [k, v, d]: k = "num" with   *)
(* the exact rational v/d (d > 0), k = "nan", or k = "inf" (+Infinity).    *)
(***************************************************************************)
EXTENDS Integers, FiniteSets, Sequences, TLC

VARIABLES
    pc,          \* position of the running request
    candidates,  \* the candidate list handed to the solver
    budget,      \* req.body.budget
    Q,           \* the QUBO matrix handed to the solver
    idxs,        \* narGreedyBudget: candidate indices in rank order
    gi,          \* narGreedyBudget: position of the for-of loop in idxs
    total,       \* narGreedyBudget: running total cost
    selected,    \* narGreedyBudget: accepted indices, in acceptance order
    x,           \* the selection vector returned to the handler
    saX,         \* simulatedAnnealingQUBO: x, the current state
    bestX,       \* simulatedAnnealingQUBO: best-known state
    bestE,       \* simulatedAnnealingQUBO: best-known energy
    iter,        \* simulatedAnnealingQUBO: loop counter
    minSeen,     \* history: lowest energy of any state that was current
    now,         \* Date.now()
    files,       \* /tmp: path -> content, for the files that exist
    gurobi,      \* gurobiQUBOBudget: quboPath, costsPath, result
    thrown,      \* the Error a solver threw to the handler, or "none"
    mode,        \* which /api/optimize handler runs: "mesh" or "dataset"
    req,         \* req.body
    cap,         \* maxCandidates of the QUBO export
    response,    \* what the handler sent with res.status(...).json(...)
    reqs,        \* quantum_optimize: the requests of the run
    qs,          \* quantum_optimize: per request, the handler's locals
    sent         \* quantum_optimize: per request, the responses sent

greedyVars == <<idxs, gi, total, selected>>

saVars == <<saX, bestX, bestE, iter, minSeen>>

extVars == <<now, files, gurobi, thrown>>

quantumVars == <<reqs, qs, sent>>

handlerVars == <<mode, req, cap, response, quantumVars>>

vars == <<pc, candidates, budget, Q, x, greedyVars, saVars, extVars, handlerVars>>

-----------------------------------------------------------------------------
(* Bounds of the model. *)

MaxN == 3

\* stands for maxIter = 10000 of simulatedAnnealingQUBO
MaxIter == 4

-----------------------------------------------------------------------------
(* JavaScript arrays. *)

Length(a) == Cardinality(DOMAIN a)

EmptyArray == [i \in {} |-> 0]

Push(a, e) == [i \in 0..Length(a) |-> IF i < Length(a) THEN a[i] ELSE e]

Includes(a, e) == \E i \in DOMAIN a : a[i] = e

ArraysOf(S, n) == [0..(n - 1) -> S]

ArraysUpTo(S, n) == UNION {ArraysOf(S, m) : m \in 0..n}

-----------------------------------------------------------------------------
(* JavaScript numbers. *)

Num(v) == [k |-> "num", v |-> v, d |-> 1]

NaN == [k |-> "nan", v |-> 0, d |-> 1]

Infinity == [k |-> "inf", v |-> 0, d |-> 1]

Undefined == NaN

\* c.f for a candidate record c: undefined when the record has no such field
Field(c, f) == IF f \in DOMAIN c THEN Num(c[f]) ELSE Undefined

\* a + b
JsAdd(a, b) ==
    IF a.k = "nan" \/ b.k = "nan" THEN NaN
    ELSE IF a.k = "inf" \/ b.k = "inf" THEN Infinity
    ELSE [k |-> "num", v |-> a.v * b.d + b.v * a.d, d |-> a.d * b.d]

\* a / b for a >= 0, b >= 0
JsDiv(a, b) ==
    IF a.k = "nan" \/ b.k = "nan" THEN NaN
    ELSE IF a.k = "inf" THEN (IF b.k = "inf" THEN NaN ELSE Infinity)
    ELSE IF b.k = "inf" THEN Num(0)
    ELSE IF b.v = 0 THEN (IF a.v = 0 THEN NaN ELSE Infinity)
    ELSE [k |-> "num", v |-> a.v * b.d, d |-> a.d * b.v]

\* a - b for finite a
JsSub(a, b) ==
    IF a.k = "nan" \/ b.k # "num" THEN NaN
    ELSE [k |-> "num", v |-> a.v * b.d - b.v * a.d, d |-> a.d * b.d]

\* a * b for finite a, b
JsMul(a, b) ==
    IF a.k # "num" \/ b.k # "num" THEN NaN
    ELSE [k |-> "num", v |-> a.v * b.v, d |-> a.d * b.d]

\* a === b
JsEq(a, b) ==
    /\ a.k # "nan"
    /\ b.k # "nan"
    /\ a.k = b.k
    /\ a.k = "num" => a.v * b.d = b.v * a.d

\* a < b
JsLt(a, b) ==
    /\ a.k # "nan"
    /\ b.k # "nan"
    /\ a.k = "num"
    /\ \/ b.k = "inf"
       \/ a.v * b.d < b.v * a.d

\* a <= b
JsLe(a, b) ==
    /\ a.k # "nan"
    /\ b.k # "nan"
    /\ \/ b.k = "inf"
       \/ a.k = "num" /\ a.v * b.d <= b.v * a.d

-----------------------------------------------------------------------------
(* Temporary files and the output of a solver process. *)

\* path.join('/tmp', `${prefix}_${Date.now()}.json`)
TmpPath(prefix, t) == [prefix |-> prefix, t |-> t]

NoPath == TmpPath("none", 0)

WriteFile(fs, path, content) ==
    [p \in DOMAIN fs \cup {path} |-> IF p = path THEN content ELSE fs[p]]

Unlink(fs, path) == [p \in DOMAIN fs \ {path} |-> fs[p]]

\* One line of standard output: a log line (no JSON), the JSON of a falsy
\* value (null, 0, false, ""), of another primitive, of an object without
\* selected_indices, or a result record { selected_indices: [...] }.
LogLine == [t |-> "log", sel |-> EmptyArray]

FalsyLine == [t |-> "falsy", sel |-> EmptyArray]

PrimitiveLine == [t |-> "primitive", sel |-> EmptyArray]

ObjectLine == [t |-> "object", sel |-> EmptyArray]

RecordLine(sel) == [t |-> "record", sel |-> sel]

\* JSON.parse(line) does not throw
Parses(line) == line.t # "log"

NoGurobi == [quboPath |-> NoPath, costsPath |-> NoPath,
             status |-> "none", stdout |-> <<>>]

\* no value: an absent field of req.body
None == <<>>

Some(v) == <<v>>

\* o ?? d
Coalesce(o, d) == IF o = None THEN d ELSE o[1]

NoRequest == [budget |-> 0]

NoResponse == [status |-> 0]

\* the locals of the solvers before any solver has run
SolversIdle ==
    /\ idxs = EmptyArray
    /\ gi = 0
    /\ total = Num(0)
    /\ selected = EmptyArray
    /\ x = EmptyArray
    /\ saX = EmptyArray
    /\ bestX = EmptyArray
    /\ bestE = Infinity
    /\ iter = 0
    /\ minSeen = Num(0)
    /\ now = 0
    /\ files = EmptyArray
    /\ gurobi = NoGurobi
    /\ thrown = "none"

\* no quantum_optimize request
QuantumIdle ==
    /\ reqs = {}
    /\ qs = EmptyArray
    /\ sent = EmptyArray

-----------------------------------------------------------------------------
(* narGreedyBudget *)

\* candidates[i].energy / candidates[i].cost
Ratio(c) == JsDiv(Field(c, "energy"), Field(c, "cost"))

\* the comparator with a and b exchanged: ascending ratio
ComparatorAscending(cands, a, b) == JsLt(Ratio(cands[a]), Ratio(cands[b]))

\* the sort comparator (a, b) => ratio(b) - ratio(a) is negative: a sorts
\* before b.  A NaN difference counts as 0.
ComparatorNegative(cands, a, b) == JsLt(Ratio(cands[b]), Ratio(cands[a]))

\* Array.prototype.sort is stable: e goes behind every element that the
\* comparator does not place after it.
RECURSIVE InsertSorted(_, _, _, _)
InsertSorted(cands, s, e, pos) ==
    IF pos > 0 /\ ComparatorNegative(cands, e, s[pos - 1])
    THEN InsertSorted(cands, s, e, pos - 1)
    ELSE [i \in 0..Length(s) |->
            IF i < pos THEN s[i] ELSE IF i = pos THEN e ELSE s[i - 1]]

RECURSIVE SortFrom(_, _, _)
SortFrom(cands, s, next) ==
    IF next >= Length(cands) THEN s
    ELSE SortFrom(cands, InsertSorted(cands, s, next, Length(s)), next + 1)

\* candidates.map((c, i) => i).sort(...)
SortedIdxs(cands) == SortFrom(cands, EmptyArray, 0)

\* the test without the candidate's own cost: total <= budget
FitsBeforeAdding(tot, c, b) == JsLe(tot, Num(b))

\* the test of the loop body: total + candidates[i].cost <= budget
Fits(tot, c, b) == JsLe(JsAdd(tot, Field(c, "cost")), Num(b))

\* candidates.map((_, i) => selected.includes(i) ? 1 : 0)
SelectionOf(cands, sel) ==
    [i \in DOMAIN cands |-> IF Includes(sel, i) THEN 1 ELSE 0]

NarSort ==
    /\ pc = "nar_sort"
    /\ idxs' = SortedIdxs(candidates)
    /\ total' = Num(0)
    /\ selected' = EmptyArray
    /\ gi' = 0
    /\ pc' = "nar_loop"
    /\ UNCHANGED <<handlerVars, candidates, budget, Q, x, saVars, extVars>>

NarAccept ==
    /\ pc = "nar_loop"
    /\ gi < Length(idxs)
    /\ Fits(total, candidates[idxs[gi]], budget)
    /\ selected' = Push(selected, idxs[gi])
    /\ total' = JsAdd(total, Field(candidates[idxs[gi]], "cost"))
    /\ gi' = gi + 1
    /\ UNCHANGED <<handlerVars, pc, candidates, budget, Q, idxs, x, saVars, extVars>>

NarSkip ==
    /\ pc = "nar_loop"
    /\ gi < Length(idxs)
    /\ ~Fits(total, candidates[idxs[gi]], budget)
    /\ gi' = gi + 1
    /\ UNCHANGED <<handlerVars, pc, candidates, budget, Q, idxs, total, selected, x, saVars, extVars>>

NarReturn ==
    /\ pc = "nar_loop"
    /\ gi = Length(idxs)
    /\ x' = SelectionOf(candidates, selected)
    /\ pc' = "map"
    /\ UNCHANGED <<handlerVars, candidates, budget, Q, greedyVars, saVars, extVars>>

NextGreedy == NarSort \/ NarAccept \/ NarSkip \/ NarReturn

\* candidate records of the mesh-mode handler: { lat, lng, cost, energy, dist }
CostValues == {10, 15, 20}

EnergyValues == {5, 6, 8}

BudgetValues == {25, 30}

MeshCandidates == [cost : CostValues, energy : EnergyValues]

InitGreedy ==
    /\ pc = "nar_sort"
    /\ candidates \in ArraysUpTo(MeshCandidates, MaxN)
    /\ budget \in BudgetValues
    /\ Q = EmptyArray
    /\ SolversIdle
    /\ QuantumIdle
    /\ QuantumIdle
    /\ mode = "mesh"
    /\ req = NoRequest
    /\ cap = 0
    /\ response = NoResponse

SpecGreedy == InitGreedy /\ [][NextGreedy]_vars

RECURSIVE SumOver(_, _)
SumOver(f, S) ==
    IF S = {} THEN 0
    ELSE LET i == CHOOSE j \in S : TRUE IN f[i] + SumOver(f, S \ {i})

\* summed cost of the candidates a selection vector selects
SelectedCost(cands, v) ==
    SumOver([i \in DOMAIN cands |-> cands[i].cost], {i \in DOMAIN v : v[i] = 1})

\* C1: the greedy solver's running total never exceeds the budget at any
\* step of its loop (it is the summed cost of the candidates accepted so
\* far), and the returned vector selects candidates whose summed cost is at
\* most the budget.
C1_GreedyWithinBudget ==
    /\ pc = "nar_loop" =>
        /\ JsLe(total, Num(budget))
        /\ total = Num(SelectedCost(candidates, SelectionOf(candidates, selected)))
    /\ pc = "map" => SelectedCost(candidates, x) <= budget

\* the greedy solver returned after accepting a candidate that used the
\* budget up and after rejecting another
C1_Witness ==
    /\ pc = "map"
    /\ SelectedCost(candidates, x) = budget
    /\ \E i \in DOMAIN x : x[i] = 0

\* a ranks before b: higher energy/cost, equal ratios in list order
RanksBefore(cands, a, b) ==
    \/ cands[a].energy * cands[b].cost > cands[b].energy * cands[a].cost
    \/ /\ cands[a].energy * cands[b].cost = cands[b].energy * cands[a].cost
       /\ a < b

\* cost accepted ahead of candidate i in rank order
AcceptedAhead(cands, v, i) ==
    SumOver([j \in DOMAIN cands |-> cands[j].cost],
            {j \in DOMAIN cands : v[j] = 1 /\ RanksBefore(cands, j, i)})

ScenarioB ==
    [i \in 0..2 |-> [cost |-> IF i = 0 THEN 10 ELSE IF i = 1 THEN 20 ELSE 15,
                     energy |-> IF i = 0 THEN 5 ELSE IF i = 1 THEN 8 ELSE 6]]

\* C2: the greedy solver visits every candidate once, in descending
\* energy/cost order with equal ratios in list order, and its result selects
\* candidate i exactly when the cost accepted ahead of i plus the cost of i is
\* at most the budget; costs [10,20,15], energies [5,8,6], budget 25 give the
\* selection {0, 2}.
C2_GreedyIsReference ==
    /\ pc \in {"nar_loop", "map"} =>
        /\ Length(idxs) = Length(candidates)
        /\ \A i \in DOMAIN candidates : Includes(idxs, i)
        /\ \A s, t \in DOMAIN idxs :
              s < t => RanksBefore(candidates, idxs[s], idxs[t])
    /\ pc = "map" =>
        /\ DOMAIN x = DOMAIN candidates
        /\ \A i \in DOMAIN candidates :
              x[i] = 1 <=>
                AcceptedAhead(candidates, x, i) + candidates[i].cost <= budget
        /\ (candidates = ScenarioB /\ budget = 25) =>
              x = [i \in 0..2 |-> IF i = 1 THEN 0 ELSE 1]

\* scenario B has run: candidate 1 was skipped and the later, cheaper
\* candidate 2 was accepted
C2_Witness ==
    /\ pc = "map"
    /\ candidates = ScenarioB
    /\ budget = 25
    /\ x[0] = 1 /\ x[1] = 0 /\ x[2] = 1

-----------------------------------------------------------------------------
(* simulatedAnnealingQUBO *)

\* Array(n).fill(0)
Zeros(n) == [i \in 0..(n - 1) |-> 0]

\* the flip with its operands exchanged: x2[i] = x2[i] - 1
FlipNegated(v, i) == [v EXCEPT ![i] = v[i] - 1]

\* x2 = x.slice(); x2[i] = 1 - x2[i]
Flip(v, i) == [v EXCEPT ![i] = 1 - v[i]]

\* costPenalty = 10000 / budget
CostPenalty(b) == JsDiv(Num(10000), Num(b))

\* the cost accumulated by energy(): cost += candidates[i].cost where x[i]
RECURSIVE CostFrom(_, _, _)
CostFrom(cands, v, i) ==
    IF i >= Length(v) THEN Num(0)
    ELSE IF v[i] # 0
         THEN JsAdd(Field(cands[i], "cost"), CostFrom(cands, v, i + 1))
         ELSE CostFrom(cands, v, i + 1)

\* the double sum of energy(): e += Q[i][j] * x[i] * x[j]
QuadraticForm(q, v) ==
    SumOver([p \in (DOMAIN v) \X (DOMAIN v) |->
                q[p[1]][p[2]] * v[p[1]] * v[p[2]]],
            (DOMAIN v) \X (DOMAIN v))

\* energy(x)
Energy(q, cands, b, v) ==
    LET cost == CostFrom(cands, v, 0)
        e    == Num(QuadraticForm(q, v))
    IN  IF JsLt(Num(b), cost)
        THEN JsAdd(e, JsMul(CostPenalty(b),
                            JsMul(JsSub(cost, Num(b)), JsSub(cost, Num(b)))))
        ELSE e

\* the best-known state is replaced whenever a move is accepted
AlwaysImproves(e2, best) == TRUE

\* e2 < bestE
ImprovesBest(e2, best) == JsLt(e2, best)

JsMin(a, b) == IF JsLt(b, a) THEN b ELSE a

SaStart ==
    /\ pc = "sa_start"
    /\ saX' = Zeros(Length(candidates))
    /\ bestX' = Zeros(Length(candidates))
    /\ bestE' = Infinity
    /\ iter' = 0
    /\ minSeen' = Energy(Q, candidates, budget, Zeros(Length(candidates)))
    /\ pc' = "sa_loop"
    /\ UNCHANGED <<handlerVars, candidates, budget, Q, x, greedyVars, extVars>>

\* One iteration in which the move is taken.  Math.random() lies in [0, 1):
\* a move with e2 <= e1 is always taken (exp(0) = 1), an uphill move with
\* a probability that depends on T, here either way.
SaAccept ==
    /\ pc = "sa_loop"
    /\ iter < MaxIter
    /\ \E i \in 0..(Length(candidates) - 1) :
          LET x2 == Flip(saX, i)
              e1 == Energy(Q, candidates, budget, saX)
              e2 == Energy(Q, candidates, budget, x2)
          IN  /\ saX' = x2
              /\ IF ImprovesBest(e2, bestE)
                 THEN bestE' = e2 /\ bestX' = x2
                 ELSE UNCHANGED <<bestE, bestX>>
              /\ minSeen' = JsMin(minSeen, e2)
    /\ iter' = iter + 1
    /\ UNCHANGED <<handlerVars, pc, candidates, budget, Q, x, greedyVars, extVars>>

\* One iteration in which an uphill move is refused.
SaReject ==
    /\ pc = "sa_loop"
    /\ iter < MaxIter
    /\ \E i \in 0..(Length(candidates) - 1) :
          JsLt(Energy(Q, candidates, budget, saX),
               Energy(Q, candidates, budget, Flip(saX, i)))
    /\ iter' = iter + 1
    /\ UNCHANGED <<handlerVars, pc, candidates, budget, Q, x, greedyVars, extVars,
                   saX, bestX, bestE, minSeen>>

\* return bestX.  With T0 = 20 and alpha = 0.999 the temperature is still
\* about 9e-4 after 10000 iterations, so the break on T < 1e-6 is never taken
\* and the loop ends on maxIter.
SaReturn ==
    /\ pc = "sa_loop"
    /\ iter = MaxIter
    /\ x' = bestX
    /\ pc' = "map"
    /\ UNCHANGED <<handlerVars, candidates, budget, Q, greedyVars, saVars, extVars>>

NextSA == SaStart \/ SaAccept \/ SaReject \/ SaReturn

\* small matrices and costs for the annealing runs
QEntryValues == {-2, -1, 0, 2}

SaCostValues == {1, 2}

SaBudgetValues == {1, 2}

SaSizes == {1, 2}

SaCandidates == [cost : SaCostValues, energy : {1}]

InitSA ==
    /\ pc = "sa_start"
    /\ \E n \in SaSizes :
          /\ candidates \in ArraysOf(SaCandidates, n)
          /\ Q \in ArraysOf(ArraysOf(QEntryValues, n), n)
    /\ budget \in SaBudgetValues
    /\ SolversIdle
    /\ QuantumIdle
    /\ mode = "mesh"
    /\ req = NoRequest
    /\ cap = 0
    /\ response = NoResponse

SpecSA == InitSA /\ [][NextSA]_vars

\* C4: when the annealing solver returns, the energy of the returned vector
\* is at most the energy of every state that was the current state during
\* the run, the initial all-zero state included.
C4_ReturnsBestOfRun ==
    pc = "map" => JsLe(Energy(Q, candidates, budget, x), minSeen)

\* C5: the best-known energy never increases during an annealing run (it
\* is only replaced by a strictly smaller value), and once it is finite
\* bestX is a state whose energy is bestE.
C5_BestEnergyNonIncreasing ==
    /\ [](bestE.k = "num" => JsEq(Energy(Q, candidates, budget, bestX), bestE))
    /\ [][bestE' = bestE \/ JsLt(bestE', bestE)]_vars

\* bestE has been lowered and the run has since moved to a worse state
C5_Witness ==
    /\ pc = "sa_loop"
    /\ iter >= 2
    /\ bestE.k = "num"
    /\ bestX # saX
    /\ JsLt(bestE, Energy(Q, candidates, budget, saX))

-----------------------------------------------------------------------------
(* gurobiQUBOBudget *)

MaxLines == 2

MaxIndices == 2

\* indices a solver process may print: in range, negative, out of range
IndexArrays(n) == ArraysUpTo((-1)..n, MaxIndices)

\* the lines a process may print when its result record carries sel
StdoutLines(sel) ==
    {LogLine, FalsyLine, PrimitiveLine, ObjectLine, RecordLine(sel)}

\* result.stdout.trim().split('\n'): the lines of the output (none stands
\* for the single empty string of an empty output)
Stdouts(n) ==
    UNION {[1..m -> StdoutLines(sel)] : m \in 0..MaxLines, sel \in IndexArrays(n)}

\* exit status of the process; "null" when it could not be started or was
\* killed by a signal
ExitStatuses == {"0", "1", "null"}

\* result.stdout.trim().split('\n').pop()
LastLine(out) == IF out = <<>> THEN LogLine ELSE out[Len(out)]

\* candidates.map((_, i) => parsed.selected_indices.includes(i) ? 1 : 0)
SelectionOfIndices(cands, sel) ==
    [i \in DOMAIN cands |-> IF Includes(sel, i) THEN 1 ELSE 0]

\* fs.writeFileSync(quboPath, JSON.stringify({ Q }))
GurobiWriteQubo ==
    /\ pc = "gurobi_start"
    /\ gurobi' = [gurobi EXCEPT !.quboPath = TmpPath("qubo_gurobi", now)]
    /\ files' = WriteFile(files, TmpPath("qubo_gurobi", now),
                          [owner |-> "gurobi", complete |-> TRUE, data |-> Q])
    /\ pc' = "gurobi_costs"
    /\ UNCHANGED <<handlerVars, candidates, budget, Q, x, greedyVars, saVars, now, thrown>>

\* writeFileSync throws; the file may have been created before the failure
GurobiWriteQuboFails ==
    /\ pc = "gurobi_start"
    /\ gurobi' = [gurobi EXCEPT !.quboPath = TmpPath("qubo_gurobi", now)]
    /\ \/ UNCHANGED files
       \/ files' = WriteFile(files, TmpPath("qubo_gurobi", now),
                             [owner |-> "gurobi", complete |-> FALSE, data |-> Q])
    /\ thrown' = "Gurobi optimization failed: write"
    /\ pc' = "threw"
    /\ UNCHANGED <<handlerVars, candidates, budget, Q, x, greedyVars, saVars, now>>

\* fs.writeFileSync(costsPath, JSON.stringify(candidates.map(c => c.cost)))
GurobiWriteCosts ==
    /\ pc = "gurobi_costs"
    /\ gurobi' = [gurobi EXCEPT !.costsPath = TmpPath("costs_gurobi", now)]
    /\ files' = WriteFile(files, TmpPath("costs_gurobi", now),
                          [owner |-> "gurobi", complete |-> TRUE,
                           data |-> [i \in DOMAIN candidates |->
                                        Field(candidates[i], "cost")]])
    /\ pc' = "gurobi_spawn"
    /\ UNCHANGED <<handlerVars, candidates, budget, Q, x, greedyVars, saVars, now, thrown>>

GurobiWriteCostsFails ==
    /\ pc = "gurobi_costs"
    /\ gurobi' = [gurobi EXCEPT !.costsPath = TmpPath("costs_gurobi", now)]
    /\ \/ UNCHANGED files
       \/ files' = WriteFile(files, TmpPath("costs_gurobi", now),
                             [owner |-> "gurobi", complete |-> FALSE,
                              data |-> [i \in DOMAIN candidates |->
                                           Field(candidates[i], "cost")]])
    /\ thrown' = "Gurobi optimization failed: write"
    /\ pc' = "threw"
    /\ UNCHANGED <<handlerVars, candidates, budget, Q, x, greedyVars, saVars, now>>

\* spawnSync('python3', ...) is entered; it has no timeout option and blocks
\* until the process ends
GurobiSpawn ==
    /\ pc = "gurobi_spawn"
    /\ pc' = "gurobi_wait"
    /\ UNCHANGED <<handlerVars, candidates, budget, Q, x, greedyVars, saVars, extVars>>

\* the process ends (or could not be started) and spawnSync returns
GurobiExit ==
    /\ pc = "gurobi_wait"
    /\ \E st \in ExitStatuses :
          \E out \in (IF st = "null" THEN {<<>>}
                       ELSE Stdouts(Length(candidates))) :
              gurobi' = [gurobi EXCEPT !.status = st, !.stdout = out]
    /\ pc' = "gurobi_unlink"
    /\ UNCHANGED <<handlerVars, candidates, budget, Q, x, greedyVars, saVars,
                   now, files, thrown>>

\* fs.unlinkSync(quboPath); fs.unlinkSync(costsPath)
GurobiUnlink ==
    /\ pc = "gurobi_unlink"
    /\ files' = Unlink(Unlink(files, gurobi.quboPath), gurobi.costsPath)
    /\ pc' = "gurobi_parse"
    /\ UNCHANGED <<handlerVars, candidates, budget, Q, x, greedyVars, saVars,
                   now, gurobi, thrown>>

\* if (result.status !== 0) throw new Error(result.stderr || 'Gurobi failed')
GurobiFailed ==
    /\ pc = "gurobi_parse"
    /\ gurobi.status # "0"
    /\ thrown' = "Gurobi optimization failed: stderr"
    /\ pc' = "threw"
    /\ UNCHANGED <<handlerVars, candidates, budget, Q, x, greedyVars, saVars,
                   now, files, gurobi>>

\* JSON.parse(out) throws, or parsed.selected_indices is undefined and
\* .includes throws a TypeError
GurobiParseFails ==
    /\ pc = "gurobi_parse"
    /\ gurobi.status = "0"
    /\ LastLine(gurobi.stdout).t # "record"
    /\ thrown' = "Gurobi optimization failed: parse"
    /\ pc' = "threw"
    /\ UNCHANGED <<handlerVars, candidates, budget, Q, x, greedyVars, saVars,
                   now, files, gurobi>>

GurobiReturn ==
    /\ pc = "gurobi_parse"
    /\ gurobi.status = "0"
    /\ LastLine(gurobi.stdout).t = "record"
    /\ x' = SelectionOfIndices(candidates, LastLine(gurobi.stdout).sel)
    /\ pc' = "map"
    /\ UNCHANGED <<handlerVars, candidates, budget, Q, greedyVars, saVars, extVars>>

NextGurobi ==
    \/ GurobiWriteQubo
    \/ GurobiWriteQuboFails
    \/ GurobiWriteCosts
    \/ GurobiWriteCostsFails
    \/ GurobiSpawn
    \/ GurobiExit
    \/ GurobiUnlink
    \/ GurobiFailed
    \/ GurobiParseFails
    \/ GurobiReturn

InitGurobi ==
    /\ pc = "gurobi_start"
    /\ \E n \in SaSizes :
          /\ candidates \in ArraysOf(SaCandidates, n)
          /\ Q \in ArraysOf(ArraysOf({2}, n), n)
    /\ budget \in SaBudgetValues
    /\ SolversIdle
    /\ QuantumIdle
    /\ mode = "mesh"
    /\ req = NoRequest
    /\ cap = 0
    /\ response = NoResponse

SpecGurobi == InitGurobi /\ [][NextGurobi]_vars

\* the three solvers the handlers dispatch to
SpecSolve ==
    (InitGreedy \/ InitSA \/ InitGurobi)
        /\ [][NextGreedy \/ NextSA \/ NextGurobi]_vars

\* v is a binary vector with one entry per candidate
IsSelectionVector(v, cands) ==
    /\ DOMAIN v = 0..(Length(cands) - 1)
    /\ \A i \in DOMAIN v : v[i] \in {0, 1}

\* C3: the vector a solver (greedy, annealing, Gurobi bridge) returns for a
\* non-empty candidate list has one entry per candidate, each 0 or 1, and in
\* the annealing loop so have the current and the best-known state after
\* every iteration.
C3_SelectionVectorShape ==
    /\ pc = "map" => IsSelectionVector(x, candidates)
    /\ pc = "sa_loop" =>
        /\ IsSelectionVector(saX, candidates)
        /\ IsSelectionVector(bestX, candidates)

\* the Gurobi bridge returned a vector although the process printed an
\* index that is out of range
C3_Witness ==
    /\ pc = "map"
    /\ gurobi.stdout # <<>>
    /\ Includes(LastLine(gurobi.stdout).sel, Length(candidates))
    /\ \E i \in DOMAIN x : x[i] = 1

-----------------------------------------------------------------------------
(* The /api/optimize handlers: candidates, QUBO matrix, QUBO export. *)

\* The weights of the two handlers are not all integers (theta = 1e-6,
\* lambda = 1e-2 in dataset mode), so an entry of Q is kept exactly, as the
\* linear form  one*1 + alpha*a + gamma*g + theta*t + mu*m + lambda*l  in
\* the weights: a record of the six integer coefficients.
WeightNames == {"one", "alpha", "gamma", "theta", "mu", "lambda"}

\* the weights as fractions num/den
Weights(m) ==
    IF m = "mesh"
    THEN [one    |-> [num |-> 1, den |-> 1],
          alpha  |-> [num |-> 1, den |-> 1],
          gamma  |-> [num |-> 0, den |-> 1],
          theta  |-> [num |-> 1000, den |-> 1],
          mu     |-> [num |-> 1000, den |-> 1],
          lambda |-> [num |-> 1000, den |-> 1]]
    ELSE [one    |-> [num |-> 1, den |-> 1],
          alpha  |-> [num |-> 1, den |-> 10],
          gamma  |-> [num |-> 1, den |-> 10],
          theta  |-> [num |-> 1, den |-> 1000000],
          mu     |-> [num |-> 2, den |-> 1],
          lambda |-> [num |-> 1, den |-> 100]]

LinZero == [w \in WeightNames |-> 0]

\* w * c
Term(w, c) == [LinZero EXCEPT ![w] = c]

LinAdd(a, b) == [w \in WeightNames |-> a[w] + b[w]]

LinScale(k, a) == [w \in WeightNames |-> k * a[w]]

\* C = candidates.map(c => c.cost) / c.Installation_Cost_USD
CostOf(m, c) == IF m = "mesh" THEN c.cost ELSE c.Installation_Cost_USD

\* P = candidates.map(c => c.pop ?? 1) / c.Population_Coverage
PopOf(m, c) ==
    IF m = "mesh" THEN (IF "pop" \in DOMAIN c THEN c.pop ELSE 1)
    ELSE c.Population_Coverage

\* E = candidates.map(c => c.Energy_Capacity_kWh_day); mesh mode has no
\* energy term
EnergyOf(m, c) == IF m = "mesh" THEN 0 ELSE c.Energy_Capacity_kWh_day

\* K = req.body.K ?? Math.floor(budget / cellSize.price)   (mesh)
\* K = req.body.K ?? Math.floor(budget / 15000)            (dataset)
RequestK(m, r) ==
    Coalesce(r.K, IF m = "mesh" THEN r.budget \div r.cellSize[1].price
                  ELSE r.budget \div 15000)

\* M = req.body.M ?? 0
RequestM(m, r) == Coalesce(r.M, 0)

\* the count target the handler puts into the matrix: K in mesh mode,
\* max_grids = req.body.max_grids ?? 10 in dataset mode
CountTarget(m, r) ==
    IF m = "mesh" THEN RequestK(m, r) ELSE Coalesce(r.max_grids, 10)

\* the coverage target the handler puts into the matrix: M in mesh mode,
\* min_population = req.body.min_population ?? 15000 in dataset mode
CoverageTarget(m, r) ==
    IF m = "mesh" THEN RequestM(m, r) ELSE Coalesce(r.min_population, 15000)

\* the += statements on Q[i][i]
Diagonal(m, r, cands, i) ==
    LET C == CostOf(m, cands[i])
        P == PopOf(m, cands[i])
        E == EnergyOf(m, cands[i])
    IN  [one    |-> C,
         alpha  |-> -P,
         gamma  |-> -E,
         theta  |-> C * C - 2 * r.budget * C,
         mu     |-> 1 - 2 * CountTarget(m, r),
         lambda |-> P * P - 2 * CoverageTarget(m, r) * P]

\* the cross terms with the first factor squared
OffDiagonalSquared(m, cands, i, j) ==
    [LinZero EXCEPT
        !["theta"] = 2 * CostOf(m, cands[i]) * CostOf(m, cands[i]),
        !["mu"] = 2,
        !["lambda"] = 2 * PopOf(m, cands[i]) * PopOf(m, cands[j])]

\* the += statements on Q[i][j], i !== j
OffDiagonal(m, cands, i, j) ==
    [LinZero EXCEPT
        !["theta"] = 2 * CostOf(m, cands[i]) * CostOf(m, cands[j]),
        !["mu"] = 2,
        !["lambda"] = 2 * PopOf(m, cands[i]) * PopOf(m, cands[j])]

\* Q[0][0] += theta * budget ** 2 + mu * K ** 2 + lambda * M ** 2
ConstantOffset(m, r) ==
    [LinZero EXCEPT
        !["theta"] = r.budget * r.budget,
        !["mu"] = CountTarget(m, r) * CountTarget(m, r),
        !["lambda"] = CoverageTarget(m, r) * CoverageTarget(m, r)]

\* the matrix after the two loops and the offset statement
BuildMatrix(m, r, cands) ==
    [i \in DOMAIN cands |->
        [j \in DOMAIN cands |->
            IF i = j
            THEN IF i = 0
                 THEN LinAdd(Diagonal(m, r, cands, i), ConstantOffset(m, r))
                 ELSE Diagonal(m, r, cands, i)
            ELSE OffDiagonal(m, cands, i, j)]]

\* Math.ceil(a / b) for a >= 0, b > 0
CeilDiv(a, b) == (a + b - 1) \div b

\* the stride rounded down instead of up
StepFloor(n, c) == n \div c

\* step = Math.ceil(candidates.length / maxCandidates)
Step(n, c) == CeilDiv(n, c)

\* a.filter((_, i) => i % step === 0)
RECURSIVE FilterStride(_, _, _)
FilterStride(a, step, i) ==
    IF i >= Length(a) THEN EmptyArray
    ELSE LET rest == FilterStride(a, step, i + 1)
         IN  IF i % step = 0
             THEN [k \in 0..Length(rest) |->
                     IF k = 0 THEN a[i] ELSE rest[k - 1]]
             ELSE rest

\* a.slice(0, c)
Slice(a, c) ==
    [i \in 0..((IF Length(a) < c THEN Length(a) ELSE c) - 1) |-> a[i]]

\* candidates.filter((_, i) => i % step === 0).slice(0, maxCandidates)
ReducedCandidates(cands, c) ==
    Slice(FilterStride(cands, Step(Length(cands), c), 0), c)

\* Q[i * step]?.[j * step] ?? 0
EntryOrZero(q, a, b) ==
    IF a \in DOMAIN q /\ b \in DOMAIN q[a] THEN q[a][b] ELSE LinZero

\* reducedCandidates.map((_, i) => reducedCandidates.map((_, j) => ...))
ReducedQ(q, cands, c) ==
    LET step == Step(Length(cands), c)
        red  == ReducedCandidates(cands, c)
    IN  [i \in DOMAIN red |-> [j \in DOMAIN red |->
            EntryOrZero(q, i * step, j * step)]]

\* the validation without the tests of the budget
ValidRequestAnyBudget(m, r) ==
    /\ r.polygon = 4
    /\ r.popCenter
    /\ m = "mesh" =>
        /\ r.gridArea = None \/ r.gridArea[1] > 0
        /\ r.cellSize # None
        /\ r.country

\* the validation of the handler
ValidRequest(m, r) ==
    /\ r.polygon = 4
    /\ r.budget > 0
    /\ r.popCenter
    /\ m = "mesh" =>
        /\ r.gridArea = None \/ r.gridArea[1] > 0
        /\ r.cellSize # None
        /\ r.country

\* return res.status(400).json({ error: 'Invalid input' })
HandlerInvalid ==
    /\ pc = "validate"
    /\ ~ValidRequest(mode, req)
    /\ response' = [status |-> 400, error |-> "Invalid input"]
    /\ pc' = "done"
    /\ UNCHANGED <<mode, req, cap, quantumVars, candidates, budget, Q, x,
                   greedyVars, saVars, extVars>>

\* candidate records of the mesh: every point of the mesh that lies inside
\* the polygon, with the cost and energy of the cell profile.  id stands
\* for the location (lat, lng) and the distance derived from it.
MeshPoints(r, n) ==
    [i \in 0..(n - 1) |->
        [id |-> i, cost |-> r.cellSize[1].price, energy |-> r.cellSize[1].energy]]

SiteCostValues == {1, 2}

SitePopValues == {1, 2}

SiteEnergyValues == {1}

\* ethiopiaSites filtered by the polygon; Site_ID stands for the site's
\* identity, coordinates and distance
DatasetSites(n) ==
    {[i \in 0..(n - 1) |->
        [Site_ID |-> i,
         Installation_Cost_USD |-> f[i][1],
         Population_Coverage |-> f[i][2],
         Energy_Capacity_kWh_day |-> f[i][3]]] :
     f \in [0..(n - 1) -> SiteCostValues \X SitePopValues \X SiteEnergyValues]}

\* the lists candidate generation can yield for a request
GeneratedCandidates(m, r, n) ==
    IF m = "mesh" THEN {MeshPoints(r, n)} ELSE DatasetSites(n)

\* candidate generation: the points of the mesh, or the sites of the
\* dataset, that lie inside the polygon
HandlerGenerate ==
    /\ pc = "validate"
    /\ ValidRequest(mode, req)
    /\ \E n \in 0..req.inside : candidates' \in GeneratedCandidates(mode, req, n)
    /\ pc' = "generated"
    /\ UNCHANGED <<mode, req, cap, response, quantumVars, budget, Q, x,
                   greedyVars, saVars, extVars>>

\* if (candidates.length === 0) return res.status(200).json({ grids: [] })
HandlerEmpty ==
    /\ pc = "generated"
    /\ Length(candidates) = 0
    /\ response' = [status |-> 200, grids |-> EmptyArray]
    /\ pc' = "done"
    /\ UNCHANGED <<mode, req, cap, quantumVars, candidates, budget, Q, x,
                   greedyVars, saVars, extVars>>

\* the construction of Q without the test for an empty candidate list
HandlerBuildAlways ==
    /\ pc = "generated"
    /\ Q' = BuildMatrix(mode, req, candidates)
    /\ pc' = "built"
    /\ UNCHANGED <<mode, req, cap, response, quantumVars, candidates, budget, x,
                   greedyVars, saVars, extVars>>

\* the construction of Q
HandlerBuild ==
    /\ pc = "generated"
    /\ Length(candidates) > 0
    /\ Q' = BuildMatrix(mode, req, candidates)
    /\ pc' = "built"
    /\ UNCHANGED <<mode, req, cap, response, quantumVars, candidates, budget, x,
                   greedyVars, saVars, extVars>>

\* quboOnly with more candidates than maxCandidates
HandlerExportReduced ==
    /\ pc = "built"
    /\ req.quboOnly
    /\ Length(candidates) > cap
    /\ response' = [status |-> 200,
                    Q |-> ReducedQ(Q, candidates, cap),
                    candidates |-> ReducedCandidates(candidates, cap),
                    budget |-> budget]
    /\ pc' = "done"
    /\ UNCHANGED <<mode, req, cap, quantumVars, candidates, budget, Q, x,
                   greedyVars, saVars, extVars>>

\* quboOnly with at most maxCandidates candidates
HandlerExportFull ==
    /\ pc = "built"
    /\ req.quboOnly
    /\ Length(candidates) <= cap
    /\ response' = [status |-> 200, Q |-> Q, candidates |-> candidates,
                    budget |-> budget]
    /\ pc' = "done"
    /\ UNCHANGED <<mode, req, cap, quantumVars, candidates, budget, Q, x,
                   greedyVars, saVars, extVars>>

NextBuild ==
    \/ HandlerGenerate
    \/ HandlerEmpty
    \/ HandlerBuild
    \/ HandlerExportReduced
    \/ HandlerExportFull

\* the cost and energy of a mesh cell (cellSize.price, cellSize.energy)
CellSizes == [price : {1, 2}, energy : {1}]

RequestBudgets == {2, 3}

\* the optional targets of a request
OptionalTargets == {None, Some(1)}

\* valid requests; inside is the number of mesh points or dataset sites
\* that lie inside the request's polygon
ValidRequests(m, maxInside) ==
    [polygon : {4}, budget : RequestBudgets, popCenter : {TRUE},
     gridArea : {Some(1)}, country : {TRUE},
     cellSize : IF m = "mesh" THEN {Some(c) : c \in CellSizes} ELSE {None},
     K : OptionalTargets, M : OptionalTargets,
     max_grids : IF m = "mesh" THEN {None} ELSE OptionalTargets,
     min_population : IF m = "mesh" THEN {None} ELSE OptionalTargets,
     quboOnly : BOOLEAN, algo : {None}, inside : {maxInside}]

\* the source fixes maxCandidates = 1000; the model draws the cap from
\* 1..MaxCap so that lists longer than the cap occur
MaxCap == 2

InitBuild ==
    /\ pc = "validate"
    /\ mode \in {"mesh", "dataset"}
    /\ req \in ValidRequests(mode, MaxN)
    /\ budget = req.budget
    /\ cap \in (IF req.quboOnly THEN 1..MaxCap ELSE {MaxCap})
    /\ response = NoResponse
    /\ candidates = EmptyArray
    /\ Q = EmptyArray
    /\ SolversIdle
    /\ QuantumIdle

\* the optimize handlers up to the QUBO export
SpecBuild == InitBuild /\ [][NextBuild]_vars

MaxExportN == 5

\* export requests on longer candidate lists
InitExport ==
    /\ pc = "validate"
    /\ mode = "dataset"
    /\ req \in {r \in ValidRequests(mode, MaxExportN) :
                  /\ r.quboOnly
                  /\ r.K = None /\ r.M = None
                  /\ r.max_grids = None /\ r.min_population = None}
    /\ budget = req.budget
    /\ cap \in 1..MaxCap
    /\ response = NoResponse
    /\ candidates = EmptyArray
    /\ Q = EmptyArray
    /\ SolversIdle
    /\ QuantumIdle

SpecExport == InitExport /\ [][NextBuild]_vars

RECURSIVE LinSumOver(_, _)
LinSumOver(f, S) ==
    IF S = {} THEN LinZero
    ELSE LET i == CHOOSE j \in S : TRUE
         IN  LinAdd(f[i], LinSumOver(f, S \ {i}))

\* x^T Q x, as a linear form in the weights
QuadraticFormLin(q, v) ==
    LinSumOver([p \in (DOMAIN v) \X (DOMAIN v) |->
                   LinScale(v[p[1]] * v[p[2]], q[p[1]][p[2]])],
               (DOMAIN v) \X (DOMAIN v))

BinaryVectors(cands) == [DOMAIN cands -> {0, 1}]

Weighted(m, cands, v, F(_, _)) ==
    SumOver([i \in DOMAIN cands |-> v[i] * F(m, cands[i])], DOMAIN cands)

Count(v) == SumOver(v, DOMAIN v)

\* sum C_i x_i - alpha sum P_i x_i - gamma sum E_i x_i
\*   + theta (sum C_i x_i - B)^2 + mu (sum x_i - K)^2 + lambda (M - sum P_i x_i)^2
\* with K and M the count and coverage targets of the handler; mesh mode
\* has no energy weight (gamma = 0)
ObjectiveAndPenalties(m, r, cands, v) ==
    LET c == Weighted(m, cands, v, CostOf)
        p == Weighted(m, cands, v, PopOf)
        e == Weighted(m, cands, v, EnergyOf)
    IN  [one    |-> c,
         alpha  |-> -p,
         gamma  |-> -e,
         theta  |-> (c - r.budget) * (c - r.budget),
         mu     |-> (Count(v) - CountTarget(m, r)) * (Count(v) - CountTarget(m, r)),
         lambda |-> (CoverageTarget(m, r) - p) * (CoverageTarget(m, r) - p)]

\* C6: for every binary vector x, x^T Q x of the built matrix is the
\* objective plus the three full squared penalties, constant terms
\* included, whether or not candidate 0 is selected.
C6_QuadraticFormIsFullValue ==
    pc = "built" =>
        \A v \in BinaryVectors(candidates) :
            QuadraticFormLin(Q, v) = ObjectiveAndPenalties(mode, req, candidates, v)

\* C7: the count and coverage penalties of the built matrix use the
\* request's K and M (or their defaults floor(budget / unit cost) and 0):
\* every diagonal entry contains mu (1 - 2K) + lambda (P_i^2 - 2 M P_i), and
\* Q[0][0] also mu K^2 + lambda M^2.
C7_MatrixUsesRequestKM ==
    pc = "built" =>
        LET K == RequestK(mode, req)
            M == RequestM(mode, req)
        IN  \A i \in DOMAIN candidates :
                LET P == PopOf(mode, candidates[i])
                IN  /\ Q[i][i]["mu"] =
                         (1 - 2 * K) + (IF i = 0 THEN K * K ELSE 0)
                    /\ Q[i][i]["lambda"] =
                         (P * P - 2 * M * P) + (IF i = 0 THEN M * M ELSE 0)

\* C8: Q[i][j] = Q[j][i] for every pair i # j of the built matrix, and of
\* the matrix a QUBO export returns.
C8_MatrixSymmetric ==
    /\ pc = "built" =>
        \A i, j \in DOMAIN Q : i # j => Q[i][j] = Q[j][i]
    /\ (pc = "done" /\ "Q" \in DOMAIN response) =>
        \A i, j \in DOMAIN response.Q :
            i # j => response.Q[i][j] = response.Q[j][i]

\* a matrix was built over candidates of differing cost and coverage
C8_Witness ==
    /\ pc = "built"
    /\ mode = "dataset"
    /\ Length(candidates) >= 2
    /\ candidates[0].Installation_Cost_USD # candidates[1].Installation_Cost_USD
    /\ candidates[0].Population_Coverage # candidates[1].Population_Coverage
    /\ Q[0][1]["theta"] > 0

\* the least k with k * c >= n
LeastStride(n, c) == CHOOSE k \in 1..n : k * c >= n /\ (k - 1) * c < n

\* C9: a QUBO export of n candidates under cap c returns, when n > c, the
\* candidates 0, k, 2k, ... for k = ceil(n / c), at most c of them, and the
\* matrix Q'[i][j] = Q[i*k][j*k] with i*k and j*k in range; when n <= c it
\* returns the matrix and the candidate list unchanged.
C9_ExportIsStrided ==
    (pc = "done" /\ "Q" \in DOMAIN response) =>
        LET n  == Length(candidates)
            rc == response.candidates
            rq == response.Q
        IN  IF n > cap
            THEN LET k == LeastStride(n, cap)
                 IN  /\ Length(rc) = Cardinality({i \in 0..(n - 1) : i % k = 0})
                     /\ Length(rc) <= cap
                     /\ DOMAIN rq = DOMAIN rc
                     /\ \A i \in DOMAIN rc :
                           /\ i * k < n
                           /\ rc[i] = candidates[i * k]
                           /\ DOMAIN rq[i] = DOMAIN rc
                           /\ \A j \in DOMAIN rc : rq[i][j] = Q[i * k][j * k]
            ELSE rq = Q /\ rc = candidates

\* an export with more candidates than the cap returned at least two
\* candidates with a stride of at least 2
C9_Witness ==
    /\ pc = "done"
    /\ "Q" \in DOMAIN response
    /\ Length(candidates) > cap
    /\ Length(response.candidates) >= 2
    /\ response.candidates[1] = candidates[2]

-----------------------------------------------------------------------------
(* The quantum_optimize handler.  The body of the handler up to the        *)
(* registration of the close listener runs without interruption; the       *)
(* timeout callback, the data callbacks and the close callback run later,  *)
(* interleaved with those of other requests.                               *)

\* the variables of the optimize handler and its solvers
optimizeVars ==
    <<pc, candidates, budget, Q, x, greedyVars, saVars, gurobi, thrown,
      mode, req, cap, response>>

Reqs == {1, 2}

\* candidates[i] of request r
CandidateOf(r, i) == [owner |-> r, idx |-> i]

\* candidates[i] for an index outside the list
NoCandidate == [owner |-> 0, idx |-> -1]

QuantumCandidates(r, n) == [i \in 0..(n - 1) |-> CandidateOf(r, i)]

\* a valid body: the matrix of request r, k and n candidates
ValidBody(r, n) ==
    [method |-> "POST", Q |-> Some(r), k |-> 1,
     candidates |-> Some(QuantumCandidates(r, n))]

\* bodies that fail a check of the handler
InvalidBodies(r, n) ==
    {[ValidBody(r, n) EXCEPT !.method = "GET"],
     [ValidBody(r, n) EXCEPT !.Q = None],
     [ValidBody(r, n) EXCEPT !.k = 0],
     [ValidBody(r, n) EXCEPT !.candidates = None]}

\* unlinks counts the calls of fs.unlinkSync(quboPath) that returned
NewRequest(body) ==
    [pc |-> "received", body |-> body, quboPath |-> NoPath,
     responded |-> FALSE, out |-> <<>>, err |-> <<>>,
     timer |-> "none", proc |-> "none", unlinks |-> 0]

\* res.status(...).json(...)
Send(r, resp) == sent' = [sent EXCEPT ![r] = Append(sent[r], resp)]

\* if (req.method !== 'POST') return res.status(405)...
QMethodNotAllowed(r) ==
    /\ r \in reqs
    /\ qs[r].pc = "received"
    /\ qs[r].body.method # "POST"
    /\ Send(r, [status |-> 405, error |-> "Method not allowed"])
    /\ qs' = [qs EXCEPT ![r].pc = "done"]
    /\ UNCHANGED <<optimizeVars, reqs, now, files>>

\* if (!Q || !k || !candidates) return res.status(400)...
QMissing(r) ==
    /\ r \in reqs
    /\ qs[r].pc = "received"
    /\ qs[r].body.method = "POST"
    /\ qs[r].body.Q = None \/ qs[r].body.k = 0 \/ qs[r].body.candidates = None
    /\ Send(r, [status |-> 400, error |-> "Missing Q, k, or candidates"])
    /\ qs' = [qs EXCEPT ![r].pc = "done"]
    /\ UNCHANGED <<optimizeVars, reqs, now, files>>

QBodyValid(r) ==
    /\ qs[r].body.method = "POST"
    /\ qs[r].body.Q # None
    /\ qs[r].body.k # 0
    /\ qs[r].body.candidates # None

\* writeFileSync, spawn, setTimeout and the registration of the listeners
QStart(r) ==
    /\ r \in reqs
    /\ qs[r].pc = "received"
    /\ QBodyValid(r)
    /\ files' = WriteFile(files, TmpPath("qubo", now),
                          [owner |-> r, complete |-> TRUE, data |-> qs[r].body.Q[1]])
    /\ qs' = [qs EXCEPT ![r].pc = "waiting",
                        ![r].quboPath = TmpPath("qubo", now),
                        ![r].proc = "running",
                        ![r].timer = "armed"]
    /\ UNCHANGED <<optimizeVars, reqs, now, sent>>

\* writeFileSync throws: the handler's promise rejects and the framework
\* answers 500; the file may have been created before the failure
QStartWriteFails(r) ==
    /\ r \in reqs
    /\ qs[r].pc = "received"
    /\ QBodyValid(r)
    /\ \/ UNCHANGED files
       \/ files' = WriteFile(files, TmpPath("qubo", now),
                             [owner |-> r, complete |-> FALSE,
                              data |-> qs[r].body.Q[1]])
    /\ Send(r, [status |-> 500, error |-> "Internal Server Error"])
    /\ qs' = [qs EXCEPT ![r].pc = "done", ![r].quboPath = TmpPath("qubo", now)]
    /\ UNCHANGED <<optimizeVars, reqs, now>>

\* the index lists a record of the process may carry: empty, one index
\* (in range or not), or the two indices 1, 0
QuantumIndexArrays(n) ==
    ArraysUpTo((-1)..n, 1) \cup {[k \in 0..1 |-> 1 - k]}

\* the lines the process of a request may print: every kind when the
\* request runs alone, a log line or one record when two requests run
QuantumLines(r) ==
    IF Cardinality(reqs) = 1
    THEN UNION {StdoutLines(sel) :
                   sel \in QuantumIndexArrays(Length(qs[r].body.candidates[1]))}
    ELSE {LogLine, RecordLine([i \in {0} |-> 0])}

\* py.stdout.on('data', d => { out += d.toString(); })
QStdout(r) ==
    /\ r \in reqs
    /\ qs[r].proc = "running"
    /\ Len(qs[r].out) < MaxLines
    /\ \E line \in QuantumLines(r) :
          qs' = [qs EXCEPT ![r].out = Append(qs[r].out, line)]
    /\ UNCHANGED <<optimizeVars, reqs, now, files, sent>>

\* py.stderr.on('data', d => { err += d.toString(); })
QStderr(r) ==
    /\ r \in reqs
    /\ qs[r].proc = "running"
    /\ qs[r].err = <<>>
    /\ qs' = [qs EXCEPT ![r].err = <<"stderr">>]
    /\ UNCHANGED <<optimizeVars, reqs, now, files, sent>>

\* the timeout callback: kill, unlink, respond
QTimeout(r) ==
    /\ r \in reqs
    /\ qs[r].timer = "armed"
    /\ ~qs[r].responded
    /\ qs[r].quboPath \in DOMAIN files
    /\ files' = Unlink(files, qs[r].quboPath)
    /\ Send(r, [status |-> 500, error |-> "Quantum optimization timed out",
                stdout |-> qs[r].out, stderr |-> qs[r].err])
    /\ qs' = [qs EXCEPT ![r].responded = TRUE, ![r].timer = "fired",
                        ![r].proc = "killed", ![r].pc = "done",
                        ![r].unlinks = qs[r].unlinks + 1]
    /\ UNCHANGED <<optimizeVars, reqs, now>>

\* the timeout callback when the file is gone: unlinkSync throws after the
\* kill, and no response is sent
QTimeoutUnlinkThrows(r) ==
    /\ r \in reqs
    /\ qs[r].timer = "armed"
    /\ ~qs[r].responded
    /\ qs[r].quboPath \notin DOMAIN files
    /\ qs' = [qs EXCEPT ![r].responded = TRUE, ![r].timer = "fired",
                        ![r].proc = "killed", ![r].pc = "crashed"]
    /\ UNCHANGED <<optimizeVars, reqs, now, files, sent>>

\* the close event of a process killed by the timeout: if (responded) return
QCloseKilled(r) ==
    /\ r \in reqs
    /\ qs[r].proc = "killed"
    /\ qs[r].responded
    /\ qs' = [qs EXCEPT ![r].proc = "closed"]
    /\ UNCHANGED <<optimizeVars, reqs, now, files, sent>>

\* the close callback when the file is gone: unlinkSync throws after
\* clearTimeout, and no response is sent
QCloseUnlinkThrows(r) ==
    /\ r \in reqs
    /\ qs[r].proc = "running"
    /\ ~qs[r].responded
    /\ qs[r].quboPath \notin DOMAIN files
    /\ qs' = [qs EXCEPT ![r].responded = TRUE, ![r].timer = "cleared",
                        ![r].proc = "closed", ![r].pc = "crashed"]
    /\ UNCHANGED <<optimizeVars, reqs, now, files, sent>>

\* the scan from the last line backwards: the last line JSON.parse accepts
RECURSIVE LastParsed(_, _)
LastParsed(out, i) ==
    IF i = 0 THEN LogLine
    ELSE IF Parses(out[i]) THEN out[i]
    ELSE LastParsed(out, i - 1)

\* result is an object: result.selected_grids can be assigned
ResultUsable(line) == line.t \in {"object", "record"}

\* (result.selected_indices || []).map(i => candidates[i])
SelectedGrids(cands, line) ==
    [k \in DOMAIN line.sel |->
        IF line.sel[k] \in DOMAIN cands THEN cands[line.sel[k]]
        ELSE NoCandidate]

\* the close callback, code !== 0
QCloseFailed(r) ==
    /\ r \in reqs
    /\ qs[r].proc = "running"
    /\ ~qs[r].responded
    /\ qs[r].quboPath \in DOMAIN files
    /\ files' = Unlink(files, qs[r].quboPath)
    /\ \E code \in ExitStatuses \ {"0"} :
          Send(r, [status |-> 500, error |-> "Quantum optimization failed",
                   details |-> qs[r].err, stdout |-> qs[r].out, code |-> code])
    /\ qs' = [qs EXCEPT ![r].responded = TRUE, ![r].timer = "cleared",
                        ![r].proc = "closed", ![r].pc = "done",
                        ![r].unlinks = qs[r].unlinks + 1]
    /\ UNCHANGED <<optimizeVars, reqs, now>>

\* the close callback, code 0, no usable result: the catch block
QCloseParseError(r) ==
    /\ r \in reqs
    /\ qs[r].proc = "running"
    /\ ~qs[r].responded
    /\ qs[r].quboPath \in DOMAIN files
    /\ ~ResultUsable(LastParsed(qs[r].out, Len(qs[r].out)))
    /\ files' = Unlink(files, qs[r].quboPath)
    /\ Send(r, [status |-> 500, error |-> "Failed to parse quantum output",
                details |-> <<qs[r].out, qs[r].err>>])
    /\ qs' = [qs EXCEPT ![r].responded = TRUE, ![r].timer = "cleared",
                        ![r].proc = "closed", ![r].pc = "done",
                        ![r].unlinks = qs[r].unlinks + 1]
    /\ UNCHANGED <<optimizeVars, reqs, now>>

\* the close callback, code 0, a result: res.status(200).json({ grids, ... })
QCloseSuccess(r) ==
    /\ r \in reqs
    /\ qs[r].proc = "running"
    /\ ~qs[r].responded
    /\ qs[r].quboPath \in DOMAIN files
    /\ ResultUsable(LastParsed(qs[r].out, Len(qs[r].out)))
    /\ files' = Unlink(files, qs[r].quboPath)
    /\ Send(r, [status |-> 200,
                grids |-> SelectedGrids(qs[r].body.candidates[1],
                                        LastParsed(qs[r].out, Len(qs[r].out)))])
    /\ qs' = [qs EXCEPT ![r].responded = TRUE, ![r].timer = "cleared",
                        ![r].proc = "closed", ![r].pc = "done",
                        ![r].unlinks = qs[r].unlinks + 1]
    /\ UNCHANGED <<optimizeVars, reqs, now>>

MaxClock == 1

\* a millisecond passes
Tick ==
    /\ reqs # {}
    /\ now < MaxClock
    /\ now' = now + 1
    /\ UNCHANGED <<optimizeVars, quantumVars, files>>

NextQuantum ==
    \/ Tick
    \/ \E r \in Reqs :
          \/ QMethodNotAllowed(r)
          \/ QMissing(r)
          \/ QStart(r)
          \/ QStartWriteFails(r)
          \/ QStdout(r)
          \/ QStderr(r)
          \/ QTimeout(r)
          \/ QTimeoutUnlinkThrows(r)
          \/ QCloseKilled(r)
          \/ QCloseUnlinkThrows(r)
          \/ QCloseFailed(r)
          \/ QCloseParseError(r)
          \/ QCloseSuccess(r)

\* the optimize handler does not run
OptimizeIdle ==
    /\ pc = "quantum"
    /\ candidates = EmptyArray
    /\ budget = 0
    /\ Q = EmptyArray
    /\ mode = "mesh"
    /\ req = NoRequest
    /\ cap = 0
    /\ response = NoResponse
    /\ SolversIdle

\* one request with any body, or two valid requests
InitQuantum ==
    /\ OptimizeIdle
    /\ reqs \in {{1}, Reqs}
    /\ \E n \in SaSizes :
          qs \in IF Cardinality(reqs) = 1
                 THEN [reqs -> {NewRequest(b) :
                          b \in {ValidBody(1, n)} \cup InvalidBodies(1, n)}]
                 ELSE {[r \in reqs |-> NewRequest(ValidBody(r, 1))]}
    /\ sent = [r \in reqs |-> <<>>]

SpecQuantum == InitQuantum /\ [][NextQuantum]_vars

\* the two out-of-process solvers
SpecExternal ==
    (InitGurobi \/ InitQuantum) /\ [][NextGurobi \/ NextQuantum]_vars

\* the files in /tmp that were written by owner
FilesOf(owner) == {p \in DOMAIN files : files[p].owner = owner}

\* C10: once an external-solver invocation has ended (the Gurobi bridge
\* returned or threw; the quantum handler answered or its callback failed),
\* no temporary file that it created exists.
C10_NoTempFileLeft ==
    /\ pc \in {"map", "threw"} => FilesOf("gurobi") = {}
    /\ \A r \in reqs : qs[r].pc \in {"done", "crashed"} => FilesOf(r) = {}

-----------------------------------------------------------------------------
(* External solvers whose process never terminates on its own: the steps   *)
(* of the node process only.  spawnSync returns only when the child exits  *)
(* (no timeout option is passed), so the Gurobi bridge has no step after   *)
(* GurobiSpawn; the quantum handler keeps its timer.                       *)

NextHang ==
    \/ GurobiWriteQubo
    \/ GurobiWriteQuboFails
    \/ GurobiWriteCosts
    \/ GurobiWriteCostsFails
    \/ GurobiSpawn
    \/ Tick
    \/ \E r \in Reqs :
          \/ QMethodNotAllowed(r)
          \/ QMissing(r)
          \/ QStart(r)
          \/ QStartWriteFails(r)
          \/ QStdout(r)
          \/ QStderr(r)
          \/ QTimeout(r)
          \/ QTimeoutUnlinkThrows(r)
          \/ QCloseKilled(r)

\* the event loop runs a callback that is ready, and an armed timer fires
SpecHang ==
    /\ InitGurobi \/ InitQuantum
    /\ [][NextHang]_vars
    /\ WF_vars(NextHang)

\* the request r was answered with the timeout failure
TimedOut(r) ==
    /\ r \in reqs
    /\ \E k \in DOMAIN sent[r] :
          /\ sent[r][k].status = 500
          /\ sent[r][k].error = "Quantum optimization timed out"

\* C11: when the spawned process never terminates on its own, every
\* external-solver invocation that waits for its process eventually ends
\* with a failure: the Gurobi bridge throws, the quantum handler answers
\* with the timeout error.
C11_HangEndsInTimeout ==
    /\ (pc = "gurobi_wait") ~> (pc = "threw")
    /\ \A r \in Reqs :
          (r \in reqs /\ qs[r].proc = "running") ~> TimedOut(r)

\* C12: in every interleaving of concurrent external-solver requests, while
\* a request's process runs its temporary file exists and holds that
\* request's own matrix, and no request is left without a response because
\* its file was removed by another request's cleanup.
C12_RequestsIsolated ==
    \A r \in reqs :
        /\ qs[r].proc = "running" =>
              /\ qs[r].quboPath \in DOMAIN files
              /\ files[qs[r].quboPath].data = qs[r].body.Q[1]
        /\ qs[r].pc # "crashed"

\* some line of the output is a result record
HasRecord(out) == \E i \in DOMAIN out : out[i].t = "record"

\* the last line of the output that is a result record
RECURSIVE LastRecord(_, _)
LastRecord(out, i) ==
    IF i = 0 THEN LogLine
    ELSE IF out[i].t = "record" THEN out[i]
    ELSE LastRecord(out, i - 1)

\* the responses of request r that report a parse failure
ParseFailures(r) ==
    {k \in DOMAIN sent[r] :
        /\ sent[r][k].status = 500
        /\ sent[r][k].error = "Failed to parse quantum output"}

Successes(r) == {k \in DOMAIN sent[r] : sent[r][k].status = 200}

\* C13: on exit code 0 both bridges take the result from the last output
\* line that is a result record, skipping later lines that are not (logs,
\* other JSON values), and report a parse failure only when no line is a
\* result record.
C13_LastValidRecordWins ==
    /\ (pc = "threw" /\ thrown = "Gurobi optimization failed: parse")
           => ~HasRecord(gurobi.stdout)
    /\ (pc = "map" /\ gurobi.quboPath # NoPath /\ HasRecord(gurobi.stdout))
           => x = SelectionOfIndices(candidates,
                     LastRecord(gurobi.stdout, Len(gurobi.stdout)).sel)
    /\ \A r \in reqs :
          /\ ParseFailures(r) # {} => ~HasRecord(qs[r].out)
          /\ HasRecord(qs[r].out) =>
                \A k \in Successes(r) :
                    sent[r][k].grids =
                        SelectedGrids(qs[r].body.candidates[1],
                            LastRecord(qs[r].out, Len(qs[r].out)))

-----------------------------------------------------------------------------
(* The /api/optimize handlers from the request to the response: the        *)
(* validation, the candidates, the matrix, the solver and the site list.   *)

\* the solvers compute with the numbers Q holds; the dataset-mode weights
\* are multiples of 1e-6, so its entries are taken in units of 1e-6
SolverScale(m) == IF m = "mesh" THEN 1 ELSE 1000000

\* the number an entry of Q holds, in units of 1 / SolverScale
LinValue(m, a) ==
    SumOver([w \in WeightNames |->
                a[w] * Weights(m)[w].num * (SolverScale(m) \div Weights(m)[w].den)],
            WeightNames)

SolverMatrix(m, q) ==
    [i \in DOMAIN q |-> [j \in DOMAIN q[i] |-> LinValue(m, q[i][j])]]

\* if (algo === 'nar') x = narGreedyBudget(Q, candidates, budget)
HandlerDispatchNar ==
    /\ pc = "built"
    /\ ~req.quboOnly
    /\ req.algo = Some("nar")
    /\ Q' = SolverMatrix(mode, Q)
    /\ pc' = "nar_sort"
    /\ UNCHANGED <<mode, req, cap, response, quantumVars, candidates, budget, x,
                   greedyVars, saVars, extVars>>

\* else if (algo === 'gurobi') x = await gurobiQUBOBudget(Q, candidates, budget)
HandlerDispatchGurobi ==
    /\ pc = "built"
    /\ ~req.quboOnly
    /\ req.algo = Some("gurobi")
    /\ Q' = SolverMatrix(mode, Q)
    /\ pc' = "gurobi_start"
    /\ UNCHANGED <<mode, req, cap, response, quantumVars, candidates, budget, x,
                   greedyVars, saVars, extVars>>

\* else x = await simulatedAnnealingQUBO(Q, candidates.length, candidates, budget)
HandlerDispatchSA ==
    /\ pc = "built"
    /\ ~req.quboOnly
    /\ req.algo \notin {Some("nar"), Some("gurobi")}
    /\ Q' = SolverMatrix(mode, Q)
    /\ pc' = "sa_start"
    /\ UNCHANGED <<mode, req, cap, response, quantumVars, candidates, budget, x,
                   greedyVars, saVars, extVars>>

\* catch (e) { return res.status(500).json({ error: e.message }) }
HandlerCatch ==
    /\ pc = "threw"
    /\ response' = [status |-> 500, error |-> thrown]
    /\ pc' = "done"
    /\ UNCHANGED <<mode, req, cap, quantumVars, candidates, budget, Q, x,
                   greedyVars, saVars, extVars>>

\* the filter with the test negated
RECURSIVE FilterUnselected(_, _, _)
FilterUnselected(cands, v, i) ==
    IF i = 0 THEN EmptyArray
    ELSE IF v[i - 1] = 0
         THEN Push(FilterUnselected(cands, v, i - 1), cands[i - 1])
         ELSE FilterUnselected(cands, v, i - 1)

\* candidates.filter((c, i) => x[i])
RECURSIVE FilterSelected(_, _, _)
FilterSelected(cands, v, i) ==
    IF i = 0 THEN EmptyArray
    ELSE IF v[i - 1] # 0
         THEN Push(FilterSelected(cands, v, i - 1), cands[i - 1])
         ELSE FilterSelected(cands, v, i - 1)

\* c => ({ lat, lng, cost, energy, dist [, pop] }); id stands for the
\* location and the distance
GridOf(m, c) ==
    IF m = "mesh"
    THEN [id |-> c.id, cost |-> c.cost, energy |-> c.energy]
    ELSE [id |-> c.Site_ID, cost |-> c.Installation_Cost_USD,
          energy |-> c.Energy_Capacity_kWh_day, pop |-> c.Population_Coverage]

\* const grids = candidates.filter((c, i) => x[i]).map(...)
GridsOf(m, cands, v) ==
    LET kept == FilterSelected(cands, v, Length(cands))
    IN  [k \in DOMAIN kept |-> GridOf(m, kept[k])]

\* res.status(200).json({ grids })
HandlerRespond ==
    /\ pc = "map"
    /\ response' = [status |-> 200, grids |-> GridsOf(mode, candidates, x)]
    /\ pc' = "done"
    /\ UNCHANGED <<mode, req, cap, quantumVars, candidates, budget, Q, x,
                   greedyVars, saVars, extVars>>

NextOptimize ==
    \/ HandlerInvalid
    \/ NextBuild
    \/ HandlerDispatchNar
    \/ HandlerDispatchGurobi
    \/ HandlerDispatchSA
    \/ NextGreedy
    \/ NextSA
    \/ NextGurobi
    \/ HandlerCatch
    \/ HandlerRespond

\* the algorithm selectors: absent (annealing), 'nar', 'gurobi'
Algos == {None, Some("nar"), Some("gurobi")}

\* valid requests with up to two candidates inside the polygon; the
\* dataset-mode coverage target is given (the default 15000 squared, in
\* units of 1e-6, does not fit 32-bit integers)
OptimizeRequests(m) ==
    {[r EXCEPT !.algo = a] :
        r \in {v \in ValidRequests(m, Cardinality(SaSizes)) :
                  /\ v.K = None
                  /\ v.M = None
                  /\ m = "dataset" => v.min_population # None},
        a \in Algos}

\* requests that fail one test of the validation
InvalidRequests(m) ==
    LET ok == OptimizeRequests(m)
    IN  UNION {{[r EXCEPT !.polygon = 0], [r EXCEPT !.polygon = 3],
                [r EXCEPT !.budget = 0], [r EXCEPT !.budget = -1],
                [r EXCEPT !.popCenter = FALSE]} : r \in ok}
        \cup (IF m = "mesh"
               THEN UNION {{[r EXCEPT !.cellSize = None],
                            [r EXCEPT !.gridArea = Some(0)],
                            [r EXCEPT !.country = FALSE]} : r \in ok}
               ELSE {})

InitOptimize ==
    /\ pc = "validate"
    /\ mode \in {"mesh", "dataset"}
    /\ req \in OptimizeRequests(mode) \cup InvalidRequests(mode)
    /\ budget = req.budget
    /\ cap \in (IF req.quboOnly THEN 1..MaxCap ELSE {MaxCap})
    /\ response = NoResponse
    /\ candidates = EmptyArray
    /\ Q = EmptyArray
    /\ SolversIdle
    /\ QuantumIdle

SpecOptimize == InitOptimize /\ [][NextOptimize]_vars

\* the two API routes: /api/optimize and /api/quantum_optimize
SpecService ==
    (InitOptimize \/ InitQuantum) /\ [][NextOptimize \/ NextQuantum]_vars

\* the quantum request r started its process and has ended
QuantumEnded(r) ==
    /\ qs[r].proc \notin {"none", "running"}
    /\ qs[r].pc \in {"done", "crashed"}

\* the optimize request ran the Gurobi process and has ended
GurobiEnded == pc = "done" /\ gurobi.status # "none"

\* an error response with diagnostic output and without a site list
IsSolverError(resp) ==
    /\ resp.status = 500
    /\ "grids" \notin DOMAIN resp
    /\ DOMAIN resp \cap {"error", "details", "stdout", "stderr"} # {}

\* C14: a request whose solver process failed, timed out or printed no
\* result record ends with an error response that carries diagnostic
\* output and no site list; a success response is sent only after exit
\* code 0 and an output that contains a result record.
C14_FailuresAreErrors ==
    /\ GurobiEnded =>
          IF gurobi.status = "0" /\ HasRecord(gurobi.stdout)
          THEN response.status \in {200, 500}
          ELSE IsSolverError(response)
    /\ \A r \in reqs :
          QuantumEnded(r) =>
              /\ Len(sent[r]) = 1
              /\ ~HasRecord(qs[r].out) => IsSolverError(sent[r][1])
              /\ sent[r][1].status = 200 \/ IsSolverError(sent[r][1])

\* the inputs to reject: polygon missing (no vertices) or not of 4
\* vertices, budget missing or <= 0, population center missing, and in
\* mesh mode cell profile missing
MustReject(m, r) ==
    \/ r.polygon # 4
    \/ r.budget <= 0
    \/ ~r.popCenter
    \/ m = "mesh" /\ r.cellSize = None

\* C15: a request with a missing or non-quadrilateral polygon, a missing
\* or non-positive budget, a missing population center or (mesh mode) a
\* missing cell profile is answered with 'Invalid input', and no
\* candidates are generated, no matrix is built, no solver runs and no
\* temporary file is written.
C15_InvalidInputRejected ==
    MustReject(mode, req) =>
        /\ pc \in {"validate", "done"}
        /\ pc = "validate" => response = NoResponse
        /\ pc = "done" => response = [status |-> 400, error |-> "Invalid input"]
        /\ candidates = EmptyArray
        /\ Q = EmptyArray
        /\ x = EmptyArray
        /\ files = EmptyArray
        /\ gurobi = NoGurobi
        /\ idxs = EmptyArray
        /\ saX = EmptyArray

\* scenario C has been answered: budget 0
C15_Witness ==
    /\ pc = "done"
    /\ req.budget = 0
    /\ req.popCenter
    /\ response.status = 400

\* C16: when candidate generation yields no candidate, the handler
\* answers 200 with an empty site list, and no matrix is built, no solver
\* runs and no process is spawned, whatever algo and quboOnly are.
C16_EmptyShortCircuits ==
    (pc # "validate" /\ ValidRequest(mode, req) /\ Length(candidates) = 0) =>
        /\ pc \in {"generated", "done"}
        /\ pc = "generated" => response = NoResponse
        /\ pc = "done" => response = [status |-> 200, grids |-> EmptyArray]
        /\ Q = EmptyArray
        /\ x = EmptyArray
        /\ files = EmptyArray
        /\ gurobi = NoGurobi
        /\ idxs = EmptyArray
        /\ saX = EmptyArray

\* an empty candidate list has been answered for a request that selects
\* the Gurobi solver
C16_Witness ==
    /\ pc = "done"
    /\ ValidRequest(mode, req)
    /\ Length(candidates) = 0
    /\ req.algo = Some("gurobi")
    /\ response.status = 200

\* the indices whose bit is 1
SelectedSet(v) == {i \in DOMAIN v : v[i] = 1}

\* the k-th (from 0) selected index in candidate order
NthSelected(v, k) ==
    CHOOSE i \in SelectedSet(v) :
        Cardinality({j \in SelectedSet(v) : j < i}) = k

\* the site g carries the attributes of candidate c
SiteIsCandidate(m, g, c) ==
    IF m = "mesh"
    THEN g.id = c.id /\ g.cost = c.cost /\ g.energy = c.energy
    ELSE /\ g.id = c.Site_ID
         /\ g.cost = c.Installation_Cost_USD
         /\ g.energy = c.Energy_Capacity_kWh_day

\* C17: on every solver path the site list of the response holds exactly
\* the candidates whose bit in the selection vector is 1, each once, in
\* candidate order, each with that candidate's own attributes.
C17_SitesAreSelectedCandidates ==
    (pc = "done" /\ Length(x) > 0) =>
        /\ response.status = 200
        /\ Length(response.grids) = Cardinality(SelectedSet(x))
        /\ \A k \in DOMAIN response.grids :
              SiteIsCandidate(mode, response.grids[k],
                              candidates[NthSelected(x, k)])

\* a response for a selection that takes one candidate and leaves one
C17_Witness ==
    /\ pc = "done"
    /\ response.status = 200
    /\ \E i, j \in DOMAIN x : i < j /\ x[i] = 0 /\ x[j] = 1
    /\ Length(response.grids) = 1

\* C18: whatever indices the solver process prints (repeated, negative,
\* out of range), every entry of the site list returned to the caller is a
\* candidate of that request, and the list is in candidate order without
\* duplicates.
C18_IndicesMapToCandidates ==
    /\ (GurobiEnded /\ response.status = 200) =>
          /\ \A k \in DOMAIN response.grids :
                \E i \in DOMAIN candidates :
                    SiteIsCandidate(mode, response.grids[k], candidates[i])
          /\ \A k, l \in DOMAIN response.grids :
                k < l => response.grids[k].id < response.grids[l].id
    /\ \A r \in reqs : \A n \in Successes(r) :
          LET g == sent[r][n].grids
              cands == qs[r].body.candidates[1]
          IN  /\ \A k \in DOMAIN g : \E i \in DOMAIN cands : g[k] = cands[i]
              /\ \A k, l \in DOMAIN g : k < l => g[k].idx < g[l].idx

\* the built matrix before the statement that adds the constants to Q[0][0]
WithoutOffset(m, r, q) ==
    [q EXCEPT ![0][0] = LinAdd(q[0][0], LinScale(-1, ConstantOffset(m, r)))]

\* C19: with and without the constants theta B^2 + mu K^2 + lambda M^2 on
\* Q[0][0], any two binary vectors compare the same way by x^T Q x, so the
\* minimizing vectors are the same.
C19_OffsetKeepsOrdering ==
    pc = "built" =>
        LET with    == SolverMatrix(mode, Q)
            without == SolverMatrix(mode, WithoutOffset(mode, req, Q))
        IN  \A v, w \in BinaryVectors(candidates) :
                (QuadraticForm(with, v) < QuadraticForm(with, w))
                    <=> (QuadraticForm(without, v) < QuadraticForm(without, w))

\* the energy capacity E_i of a candidate
CapacityOf(m, c) == IF m = "mesh" THEN c.energy ELSE c.Energy_Capacity_kWh_day

\* C20: in both handlers the cost and the energy the solvers read from a
\* candidate are its installation cost C_i and energy capacity E_i, and the
\* annealing energy carries the budget penalty exactly for the vectors
\* whose summed installation cost exceeds the budget.
C20_SolversReadCostAndEnergy ==
    pc \in {"nar_loop", "sa_loop"} =>
        /\ \A i \in DOMAIN candidates :
              /\ JsEq(Field(candidates[i], "cost"),
                      Num(CostOf(mode, candidates[i])))
              /\ JsEq(Field(candidates[i], "energy"),
                      Num(CapacityOf(mode, candidates[i])))
        /\ pc = "sa_loop" =>
              \A v \in BinaryVectors(candidates) :
                  JsEq(Energy(Q, candidates, budget, v), Num(QuadraticForm(Q, v)))
                      <=> ~(Weighted(mode, candidates, v, CostOf) > budget)

\* C21: in every ordering of the timeout callback and the close callback,
\* a quantum request that passed validation and started its process gets
\* exactly one response and its temporary file is unlinked exactly once:
\* never more than one of either, and one of each once the request ended.
C21_ExactlyOneResponseAndUnlink ==
    \A r \in reqs :
        /\ Len(sent[r]) <= 1
        /\ qs[r].unlinks <= 1
        /\ QuantumEnded(r) => Len(sent[r]) = 1 /\ qs[r].unlinks = 1

====
